---- MODULE Spec2Model ----
(***************************************************************************)
(* Model of docs/sphinx_pyodide/sphinx_pyodide/jsdoc.py:                   *)
(*   PyodideAnalyzer.create_js_doclets  (the doclet categorizer)           *)
(*   JsDocContent.run                   (the full-content directive)       *)
(*   JsDocSummary.run                   (the summary-table directive)      *)
(* Strings are TLA+ strings; a character is a string of length one.        *)
(***************************************************************************)
EXTENDS Integers, Sequences, FiniteSets, TLC

VARIABLES
    doclets_by_class,   \* inner._doclets_by_class: the groups, in iteration order
    js_docs,            \* PyodideAnalyzer.js_docs
    pc,                 \* "new" | "ready" | "raised"
    out                 \* what the last directive run returned

vars == <<doclets_by_class, js_docs, pc, out>>

\* The number of doclets the analyzer supplies, over all groups.
MaxDoclets == 2

----------------------------------------------------------------------------
(* Strings *)

CharAt(s, i) == SubSeq(s, i, i)

\* Python: c in s
Contains(s, c) == \E i \in 1..Len(s) : CharAt(s, i) = c

Lowers == "abcdefghijklmnopqrstuvwxyz"
Uppers == "ABCDEFGHIJKLMNOPQRSTUVWXYZ"

\* The characters of s, as a set.
CharsOf(s) == { CharAt(s, i) : i \in 1..Len(s) }

IndexIn(s, c) == CHOOSE i \in 1..Len(s) : CharAt(s, i) = c

\* str.upper() and str.lower() of one cased character
UpperOf == [c \in CharsOf(Lowers) |-> CharAt(Uppers, IndexIn(Lowers, c))]
LowerOf == [c \in CharsOf(Uppers) |-> CharAt(Lowers, IndexIn(Uppers, c))]

IsLower(c) == c \in DOMAIN UpperOf
IsUpper(c) == c \in DOMAIN LowerOf
IsCased(c) == IsLower(c) \/ IsUpper(c)

ToUpper(c) == IF IsLower(c) THEN UpperOf[c] ELSE c
ToLower(c) == IF IsUpper(c) THEN LowerOf[c] ELSE c

\* Python str.title(): a cased character is upper-cased when it follows an
\* uncased one (or starts the string) and lower-cased otherwise.
RECURSIVE TitleFrom(_, _, _)
TitleFrom(s, i, prevCased) ==
    IF i > Len(s) THEN ""
    ELSE LET c == CharAt(s, i)
         IN  (IF prevCased THEN ToLower(c) ELSE ToUpper(c))
                 \o TitleFrom(s, i + 1, IsCased(c))

Title(s) == TitleFrom(s, 1, FALSE)

\* Python str.replace(old, new), leftmost non-overlapping occurrences; old is
\* not empty.
RECURSIVE Replace(_, _, _)
Replace(s, old, new) ==
    IF Len(s) < Len(old) THEN s
    ELSE IF SubSeq(s, 1, Len(old)) = old
         THEN new \o Replace(SubSeq(s, Len(old) + 1, Len(s)), old, new)
         ELSE CharAt(s, 1) \o Replace(SubSeq(s, 2, Len(s)), old, new)

\* The free-text description of a doclet of the model, by its kind tag.
Descriptions == [function |-> "Call: it. More text.", member |-> "A value"]

----------------------------------------------------------------------------
(* The categorizer: PyodideAnalyzer.create_js_doclets *)

ModuleNames == <<"globals", "pyodide", "PyProxy">>
GroupNames == <<"attribute", "function">>

\* get_val(): an ordered mapping attribute -> [], function -> []
get_val == [attribute |-> <<>>, function |-> <<>>]

EmptyJsDocs == [globals |-> get_val, pyodide |-> get_val, PyProxy |-> get_val]

\* key = [x for x in key if "/" not in x]
FilterKey(key) == SelectSeq(key, LAMBDA x : ~Contains(x, "/"))

\* items is a Python dict: order is its insertion order, val its values.
InitItems == [order |-> <<"PyProxy">>,
              val |-> [globals |-> <<>>, pyodide |-> <<>>, PyProxy |-> <<>>]]

HasKey(items, k) == \E i \in 1..Len(items.order) : items.order[i] = k

\* items[k] = group
SetItem(items, k, group) ==
    [order |-> IF HasKey(items, k) THEN items.order ELSE Append(items.order, k),
     val |-> [items.val EXCEPT ![k] = group]]

\* key[-1] of an empty list raises IndexError
KeyRaises(key) == Len(FilterKey(key)) = 0

MatchesGlobals(fkey) == fkey[Len(fkey)] = "globalThis"
MatchesPyodide(fkey) == fkey[1] = "pyodide." /\ fkey[Len(fkey)] = "Module"
MatchesPyProxy(fkey) == fkey[1] = "pyproxy."

\* Mutant: the globals groups are merged, as the PyProxy groups are.
SelectGlobals_Merge(items, fkey, group) ==
    IF MatchesGlobals(fkey)
    THEN SetItem(items, "globals", items.val["globals"] \o group)
    ELSE items

SelectGlobals(items, fkey, group) ==
    IF MatchesGlobals(fkey) THEN SetItem(items, "globals", group) ELSE items

SelectPyodide(items, fkey, group) ==
    IF MatchesPyodide(fkey) THEN SetItem(items, "pyodide", group) ELSE items

SelectPyProxy(items, fkey, group) ==
    IF MatchesPyProxy(fkey)
    THEN [items EXCEPT !.val.PyProxy = @ \o group]
    ELSE items

\* One iteration of the first loop, for a key that does not raise.
SelectStep(items, key, group) ==
    LET fkey == FilterKey(key)
    IN  SelectPyProxy(SelectPyodide(SelectGlobals(items, fkey, group), fkey, group),
                      fkey, group)

\* The first loop, from group i on: [raised, items].
RECURSIVE SelectItems(_, _, _)
SelectItems(dbc, i, items) ==
    IF i > Len(dbc) THEN [raised |-> FALSE, items |-> items]
    ELSE IF KeyRaises(dbc[i].key) THEN [raised |-> TRUE, items |-> items]
    ELSE SelectItems(dbc, i + 1, SelectStep(items, dbc[i].key, dbc[i].group))

\* Mutant: the private check never skips a doclet.
IsPrivate_Never(json) == FALSE

\* json.get("access", None) == "private"
IsPrivate(json) == json.access = "private"

\* Mutant: the two kinds exchanged.
KindOf_Swapped(json) == IF json.kind = "function" THEN "attribute" ELSE "function"

\* kind = "function" if json["kind"] == "function" else "attribute"
KindOf(json) == IF json.kind = "function" THEN "function" ELSE "attribute"

\* inner.get_object(path, kind) of sphinx_js: the doclet converted to the IR
\* class asked for, a Function for "function" and an Attribute otherwise.
get_object(json, kind) ==
    [longname |-> json.longname,
     name |-> json.name,
     description |-> json.description,
     class |-> IF kind = "function" THEN "Function" ELSE "Attribute",
     kind |-> "unset"]

get_object_from_json(json) ==
    LET kind == KindOf(json)
    IN  [get_object(json, kind) EXCEPT !.kind = kind]

\* obj.name[0] of an empty name raises IndexError (no doclet of the model has
\* an empty name: a documented JavaScript member always has one)
NameRaises(name) == Len(name) = 0

\* Mutant: "or" in place of "and".
IsQuoted_Either(name) == CharAt(name, 1) = "\"" \/ CharAt(name, Len(name)) = "\""

IsQuoted(name) == CharAt(name, 1) = "\"" /\ CharAt(name, Len(name)) = "\""

\* if obj.name[0] == '"' and obj.name[-1] == '"':
\*     obj.name = "[" + obj.name[1:-1] + "]"
NormalizeName(name) ==
    IF IsQuoted(name) THEN "[" \o SubSeq(name, 2, Len(name) - 1) \o "]" ELSE name

\* Mutant: the object is inserted at the front.
AppendObj_Front(list, obj) == <<obj>> \o list

\* self.js_docs[key][obj.kind].append(obj)
AppendObj(list, obj) == Append(list, obj)

\* The body of the inner loop for one doclet that does not raise.
FillOne(docs, key, json) ==
    IF IsPrivate(json) THEN docs
    ELSE LET obj == get_object_from_json(json)
             named == [obj EXCEPT !.name = NormalizeName(obj.name)]
         IN  [docs EXCEPT ![key][named.kind] = AppendObj(@, named)]

\* The inner loop over items[key], from doclet j on: [raised, docs].
RECURSIVE FillGroup(_, _, _, _)
FillGroup(docs, key, value, j) ==
    IF j > Len(value) THEN [raised |-> FALSE, docs |-> docs]
    ELSE IF ~IsPrivate(value[j]) /\ NameRaises(value[j].name)
         THEN [raised |-> TRUE, docs |-> docs]
    ELSE FillGroup(FillOne(docs, key, value[j]), key, value, j + 1)

\* The second loop over items.items(), from entry i on: [raised, docs].
RECURSIVE FillBuckets(_, _, _)
FillBuckets(docs, items, i) ==
    IF i > Len(items.order) THEN [raised |-> FALSE, docs |-> docs]
    ELSE LET r == FillGroup(docs, items.order[i], items.val[items.order[i]], 1)
         IN  IF r.raised THEN r ELSE FillBuckets(r.docs, items, i + 1)

\* create_js_doclets as a whole: [raised, docs].
Categorize(dbc) ==
    LET sel == SelectItems(dbc, 1, InitItems)
    IN  IF sel.raised THEN [raised |-> TRUE, docs |-> EmptyJsDocs]
        ELSE FillBuckets(EmptyJsDocs, sel.items, 1)

----------------------------------------------------------------------------
(* The analyzer's input *)

\* Group keys: the path segments of the class a doclet belongs to.
Keys == { <<"./", "pyodide.", "globalThis">>,
          <<"./", "pyodide.", "Module">>,
          <<"pyodide.", "Module">>,
          <<"./", "pyproxy.", "PyProxyClass">>,
          <<"pyproxy.", "globalThis">>,
          <<"./", "src/">>,
          <<"./", "util.", "Helper">> }

\* The doclets supplied: a plain function, an attribute whose name is a
\* quoted literal, an attribute whose name only starts with a quote, and a
\* private doclet of each kind.
DocletShapes ==
    { [name |-> "f", kind |-> "function", access |-> "none"],
      [name |-> "\"b\"", kind |-> "member", access |-> "none"],
      [name |-> "\"b", kind |-> "member", access |-> "none"],
      [name |-> "g", kind |-> "function", access |-> "private"],
      [name |-> "\"c\"", kind |-> "member", access |-> "private"] }

\* Doclet i of the build: its longname is modelled by its position i in supply
\* order, which is unique.
MkDoclet(i, shape) ==
    [longname |-> i, name |-> shape.name, kind |-> shape.kind,
     access |-> shape.access, description |-> Descriptions[shape.kind]]

\* The doclets i..n grouped by class key; equal keys are adjacent.
RECURSIVE GroupsFrom(_, _, _, _)
GroupsFrom(ks, shapes, i, n) ==
    IF i > n THEN <<>>
    ELSE LET last == CHOOSE j \in i..n :
                        /\ \A m \in i..j : ks[m] = ks[i]
                        /\ (j = n \/ ks[j + 1] # ks[i])
         IN  <<[key |-> ks[i],
                group |-> [m \in 1..(last - i + 1) |-> MkDoclet(i + m - 1, shapes[i + m - 1])]]>>
                 \o GroupsFrom(ks, shapes, last + 1, n)

\* A dict has each key once.
KeysAdjacent(ks, n) ==
    \A i, j \in 1..n : (i < j /\ ks[i] = ks[j]) => \A m \in i..j : ks[m] = ks[i]

----------------------------------------------------------------------------
(* The full-content directive: JsDocContent *)

\* A rendered block of rst, as the sphinx_js renderer named produces it for
\* the object.
Block(renderer, name, longname) ==
    [renderer |-> renderer, name |-> name, longname |-> longname]

\* Mutant: the two renderers exchanged.
RendererOf_Swapped(obj) ==
    IF obj.class = "Function" THEN "AutoAttributeRenderer" ELSE "AutoFunctionRenderer"

\* if isinstance(obj, Function): AutoFunctionRenderer else AutoAttributeRenderer
RendererOf(obj) ==
    IF obj.class = "Function" THEN "AutoFunctionRenderer" ELSE "AutoAttributeRenderer"

get_rst(obj) == Block(RendererOf(obj), obj.name, obj.longname)

get_rst_for_group(objects) == [i \in 1..Len(objects) |-> get_rst(objects[i])]

\* rst.append([f".. js:module:: {module}"])
ModuleHeader(module) == Block("directive", ".. js:module:: " \o module, 0)

\* values.values(): the sub-buckets in the mapping's order
ValuesOf(value) == [i \in 1..Len(GroupNames) |-> value[GroupNames[i]]]

\* "\n\n".join(["\n\n".join(r) for r in rst]): the blocks of every list of
\* rst, in order.
RECURSIVE JoinBlocks(_, _)
JoinBlocks(rst, i) ==
    IF i > Len(rst) THEN <<>> ELSE rst[i] \o JoinBlocks(rst, i + 1)

ContentRst(module, values) ==
    LET groups == ValuesOf(values)
        rst == <<<<ModuleHeader(module)>>>>
                   \o [i \in 1..Len(groups) |-> get_rst_for_group(groups[i])]
    IN  JoinBlocks(rst, 1)

----------------------------------------------------------------------------
(* The summary directive: JsDocSummary *)

Node(node, text, rows) == [node |-> node, text |-> text, rows |-> rows]

\* format_heading(text): paragraph > strong > Text(text)
format_heading(text) == Node("heading", text, <<>>)

\* group_name.title() + "s:", tabulated over the sub-bucket names
HeadingTexts == [g \in {"attribute", "function"} |-> Title(g) \o "s:"]

HeadingText(group_name) == HeadingTexts[group_name]

\* colon_esc = "esccolon\\\xafhoa:" (the character \xaf is written # here)
colon_esc == "esccolon\\#hoa:"

\* autosummary's extract_summary of sphinx: the first sentence of the text.
RECURSIVE FirstSentence(_, _)
FirstSentence(s, i) ==
    IF i > Len(s) THEN s
    ELSE IF CharAt(s, i) = "." THEN SubSeq(s, 1, i)
    ELSE FirstSentence(s, i + 1)

\* extract_summary([descr.replace(":", colon_esc)], ...).replace(colon_esc, ":"),
\* tabulated over the descriptions of the model
Summaries ==
    [d \in { Descriptions[k] : k \in DOMAIN Descriptions } |->
        Replace(FirstSentence(Replace(d, ":", colon_esc), 1), colon_esc, ":")]

extract_summary(descr) == Summaries[descr]

\* AutoFunctionRenderer._formal_params(obj) of sphinx_js: the parenthesised
\* parameter list; the doclets of the model take no parameters.
FormalParams(obj) == "()"

\* Mutant: the signature is computed for every object.
get_sig_Always(obj) == FormalParams(obj)

get_sig(obj) == IF obj.class = "Function" THEN FormalParams(obj) ELSE ""

get_summary_row(pkgname, obj) ==
    LET sig == get_sig(obj)
        display_name == obj.name
        summary == extract_summary(obj.description)
        link_name == pkgname \o "." \o display_name
    IN  [name |-> display_name, sig |-> sig, summary |-> summary,
         real_name |-> link_name]

get_summary_table(pkgname, group) ==
    [i \in 1..Len(group) |-> get_summary_row(pkgname, group[i])]

\* sphinx.util.rst.escape: a backslash before every ASCII punctuation
\* character except the full stop (the grave accent, which a TLA+ string
\* cannot hold, is left out).
RstSymbols == "!\"#$%&'()*+,-/:;<=>?@[\\]^_{|}~"

RstSymbolSet == CharsOf(RstSymbols)

RECURSIVE RstEscape(_)
RstEscape(s) ==
    IF Len(s) = 0 THEN ""
    ELSE (IF CharAt(s, 1) \in RstSymbolSet THEN "\\" ELSE "")
             \o CharAt(s, 1) \o RstEscape(SubSeq(s, 2, Len(s)))

\* col1: the "any" role around "name <real_name>", a backslash and a space,
\* then rst.escape(sig). The grave accents of the role are written ' here.
\* ("nosignatures" is never in self.options: the directive takes no options)
TableRow(item) ==
    [col1 |-> ":any:'" \o item.name \o " <" \o item.real_name \o ">'\\ "
                  \o RstEscape(item.sig),
     col2 |-> item.summary]

\* format_table(items): [table_spec, table]
format_table(items) ==
    << Node("tabular_col_spec", "\\X{1}{2}\\X{1}{2}", <<>>),
       Node("table", "", [i \in 1..Len(items) |-> TableRow(items[i])]) >>

\* Mutant: empty sub-buckets are rendered too.
SkipGroup_Never(group_objects) == FALSE

\* if not group_objects: continue
SkipGroup(group_objects) == Len(group_objects) = 0

\* The loop of JsDocSummary.run from sub-bucket i on: [result, items], items
\* being the table_items of the groups rendered.
RECURSIVE SummaryFrom(_, _, _)
SummaryFrom(module, value, i) ==
    IF i > Len(GroupNames) THEN [result |-> <<>>, items |-> <<>>]
    ELSE LET group_name == GroupNames[i]
             group_objects == value[group_name]
             rest == SummaryFrom(module, value, i + 1)
         IN  IF SkipGroup(group_objects) THEN rest
             ELSE LET table_items == get_summary_table(module, group_objects)
                  IN  [result |-> <<format_heading(HeadingText(group_name))>>
                                      \o format_table(table_items) \o rest.result,
                       items |-> <<table_items>> \o rest.items]

----------------------------------------------------------------------------
(* The state machine *)

NoOut == [directive |-> "none", module |-> "none", rst |-> <<>>,
          result |-> <<>>, items |-> <<>>]

Modules == { ModuleNames[i] : i \in 1..Len(ModuleNames) }

Init ==
    /\ \E n \in 0..MaxDoclets :
         \E ks \in [1..n -> Keys] :
           \E shapes \in [1..n -> DocletShapes] :
             /\ KeysAdjacent(ks, n)
             /\ doclets_by_class = GroupsFrom(ks, shapes, 1, n)
    /\ js_docs = EmptyJsDocs
    /\ pc = "new"
    /\ out = NoOut

\* PyodideAnalyzer.__init__ -> create_js_doclets
CreateJsDoclets ==
    /\ pc = "new"
    /\ LET r == Categorize(doclets_by_class)
       IN  /\ js_docs' = r.docs
           /\ pc' = IF r.raised THEN "raised" ELSE "ready"
    /\ UNCHANGED <<doclets_by_class, out>>

\* JsDocContent.run with arguments[0] = module
JsDocContentRun(module) ==
    /\ pc = "ready"
    /\ out' = [NoOut EXCEPT !.directive = "content", !.module = module,
                            !.rst = ContentRst(module, js_docs[module])]
    /\ UNCHANGED <<doclets_by_class, js_docs, pc>>

\* JsDocSummary.run with arguments[0] = module
JsDocSummaryRun(module) ==
    /\ pc = "ready"
    /\ LET r == SummaryFrom(module, js_docs[module], 1)
       IN  out' = [NoOut EXCEPT !.directive = "summary", !.module = module,
                                !.result = r.result, !.items = r.items]
    /\ UNCHANGED <<doclets_by_class, js_docs, pc>>

Next ==
    \/ CreateJsDoclets
    \/ \E module \in Modules : JsDocContentRun(module)
    \/ \E module \in Modules : JsDocSummaryRun(module)

Spec == Init /\ [][Next]_vars

----------------------------------------------------------------------------
(* Vocabulary of the properties *)

Built == pc = "ready"

GroupIdx == 1..Len(doclets_by_class)
Group(i) == doclets_by_class[i].group
GroupKey(i) == FilterKey(doclets_by_class[i].key)

\* Every doclet supplied, in any group.
AllDoclets == UNION { { Group(i)[j] : j \in 1..Len(Group(i)) } : i \in GroupIdx }

\* The doclet an object was made from.
DocletOf(obj) == CHOOSE d \in AllDoclets : d.longname = obj.longname

SubBuckets == { "attribute", "function" }

\* The objects of a sub-bucket, of a bucket, and their longnames.
ObjsIn(b, k) == { js_docs[b][k][i] : i \in 1..Len(js_docs[b][k]) }
ObjsOf(b) == ObjsIn(b, "attribute") \cup ObjsIn(b, "function")
Retained == ObjsOf("globals") \cup ObjsOf("pyodide") \cup ObjsOf("PyProxy")
LongnamesOf(b) == { o.longname : o \in ObjsOf(b) }

\* The groups whose key selects each bucket, when no key raises.
GlobalsGroups == { i \in GroupIdx : GroupKey(i)[Len(GroupKey(i))] = "globalThis" }
PyodideGroups ==
    { i \in GroupIdx : GroupKey(i)[1] = "pyodide." /\ GroupKey(i)[Len(GroupKey(i))] = "Module" }
PyProxyGroups == { i \in GroupIdx : GroupKey(i)[1] = "pyproxy." }

Last(S) == CHOOSE i \in S : \A j \in S : j <= i

PublicOf(i) == { d \in AllDoclets : \E j \in 1..Len(Group(i)) : Group(i)[j] = d /\ d.access # "private" }

\* The doclets a bucket is to hold: those of the last selecting group for
\* globals and pyodide, those of every selecting group for PyProxy.
LastWins(S) == IF S = {} THEN {} ELSE PublicOf(Last(S))
SourceOf(b) ==
    CASE b = "globals" -> LastWins(GlobalsGroups)
      [] b = "pyodide" -> LastWins(PyodideGroups)
      [] b = "PyProxy" -> UNION { PublicOf(i) : i \in PyProxyGroups }

IsFunctionDoclet(d) == d.kind = "function"
CountOf(b, k) ==
    Cardinality({ d \in SourceOf(b) : IsFunctionDoclet(d) <=> k = "function" })

StartsAndEndsWithQuote(n) ==
    Len(n) >= 1 /\ SubSeq(n, 1, 1) = "\"" /\ SubSeq(n, Len(n), Len(n)) = "\""

\* n is s with its first and last character replaced by brackets
Bracketed(n, s) ==
    /\ Len(n) = Len(s)
    /\ SubSeq(n, 1, 1) = "["
    /\ SubSeq(n, Len(n), Len(n)) = "]"
    /\ \A i \in 2..(Len(s) - 1) : SubSeq(n, i, i) = SubSeq(s, i, i)

----------------------------------------------------------------------------
(* Properties *)

\* C1: after create_js_doclets, no doclet whose access tag is "private" is in
\* any sub-bucket of any bucket of js_docs.
C1_NoPrivateRetained ==
    \A o \in Retained : DocletOf(o).access # "private"

\* C1 happens: a PyProxy group supplied a private doclet and a public one, and
\* the bucket holds the public one.
C1_Witness ==
    /\ Built
    /\ \E i \in PyProxyGroups :
         /\ \E j \in 1..Len(Group(i)) : Group(i)[j].access = "private"
         /\ \E j \in 1..Len(Group(i)) : Group(i)[j].longname \in LongnamesOf("PyProxy")

\* C2: the kind tag of every retained doclet is "attribute" or "function", is
\* the name of the sub-bucket holding it, and is "function" exactly when the
\* doclet's original kind tag was "function".
C2_KindMatchesSubBucket ==
    \A b \in Modules : \A k \in SubBuckets : \A o \in ObjsIn(b, k) :
        /\ o.kind \in { "attribute", "function" }
        /\ o.kind = k
        /\ (o.kind = "function" <=> DocletOf(o).kind = "function")

\* C2 happens: one bucket holds a function and a doclet of another kind.
C2_Witness ==
    /\ Built
    /\ \E b \in Modules :
         /\ \E o \in ObjsIn(b, "function") : DocletOf(o).kind = "function"
         /\ \E o \in ObjsIn(b, "attribute") : DocletOf(o).kind = "member"

\* C3: no doclet is in more than one of the buckets globals, pyodide, PyProxy.
C3_BucketsDisjoint ==
    \A b1, b2 \in Modules : b1 # b2 => LongnamesOf(b1) \cap LongnamesOf(b2) = {}

\* C4: create_js_doclets completes without raising, whatever the group keys,
\* and a group that selects no bucket contributes no doclet to any bucket.
C4_NeverRaises ==
    /\ pc # "raised"
    /\ Built => \A b \in Modules : LongnamesOf(b) \subseteq { d.longname : d \in SourceOf(b) }

\* C5: within each sub-bucket the retained doclets are in the order they were
\* supplied (group by group, then within the group), and both directives emit
\* them in that order.
C5_OrderPreserved ==
    /\ \A b \in Modules : \A k \in SubBuckets :
         \A i, j \in 1..Len(js_docs[b][k]) :
             i < j => js_docs[b][k][i].longname < js_docs[b][k][j].longname
    /\ out.directive = "content" =>
         \A i, j \in 2..Len(out.rst) :
             (i < j /\ out.rst[i].renderer = out.rst[j].renderer)
                 => out.rst[i].longname < out.rst[j].longname
    /\ out.directive = "summary" =>
         \A t \in 1..Len(out.items) :
             \E k \in SubBuckets :
                 /\ Len(out.items[t]) = Len(js_docs[out.module][k])
                 /\ \A i \in 1..Len(out.items[t]) :
                        out.items[t][i].name = js_docs[out.module][k][i].name

\* C5 happens: two PyProxy groups each gave the attribute sub-bucket a doclet
\* and the full-content directive rendered the bucket.
C5_Witness ==
    /\ out.directive = "content"
    /\ out.module = "PyProxy"
    /\ Cardinality(PyProxyGroups) = 2
    /\ Len(js_docs["PyProxy"]["attribute"]) = 2
    /\ Len(out.rst) = 3

\* The nodes the summary directive is to return for a sub-bucket with n rows.
ExpectedNodes(heading, n) ==
    IF n = 0 THEN <<>> ELSE << <<"heading", heading, 0>>,
                               <<"tabular_col_spec", "\\X{1}{2}\\X{1}{2}", 0>>,
                               <<"table", "", n>> >>

\* C6: the summary directive returns, for each non-empty sub-bucket and for
\* no other, a heading ("Attributes:" before "Functions:") followed by a table
\* with one row per non-private doclet of that kind in the bucket; an empty
\* bucket gives an empty result.
C6_SummaryShape ==
    out.directive = "summary" =>
        [i \in 1..Len(out.result) |->
            <<out.result[i].node, out.result[i].text, Len(out.result[i].rows)>>]
          = ExpectedNodes("Attributes:", CountOf(out.module, "attribute"))
                \o ExpectedNodes("Functions:", CountOf(out.module, "function"))

\* C6 happens: the summary of a bucket with an attribute and a function.
C6_Witness ==
    /\ out.directive = "summary"
    /\ CountOf(out.module, "attribute") > 0
    /\ CountOf(out.module, "function") > 0
    /\ Len(out.result) = 6

\* C7: a retained doclet whose name starts and ends with a double quote is
\* stored with the quotes replaced by brackets, any other keeps its name,
\* normalizing a stored name again changes nothing, and no summary row
\* displays a quoted name.
C7_NameNormalized ==
    \A o \in Retained :
        /\ IF StartsAndEndsWithQuote(DocletOf(o).name)
           THEN Bracketed(o.name, DocletOf(o).name)
           ELSE o.name = DocletOf(o).name
        /\ NormalizeName(o.name) = o.name
        /\ out.directive = "summary" =>
             \A t \in 1..Len(out.items) : \A i \in 1..Len(out.items[t]) :
                 ~StartsAndEndsWithQuote(out.items[t][i].name)

\* C7 happens: a doclet named "b" (quoted) is retained as [b] beside one whose
\* name only starts with a quote.
C7_Witness ==
    /\ Built
    /\ \E o \in Retained : DocletOf(o).name = "\"b\"" /\ o.name = "[b]"
    /\ \E o \in Retained : DocletOf(o).name = "\"b" /\ o.name = "\"b"

\* C8: the full-content directive emits the module header and then one block
\* per doclet of the bucket, the attribute sub-bucket's before the function
\* sub-bucket's, each rendered by the renderer of its sub-bucket's kind.
C8_ContentBlocks ==
    out.directive = "content" =>
        LET attrs == js_docs[out.module]["attribute"]
            funcs == js_docs[out.module]["function"]
        IN  /\ Len(out.rst) = 1 + Len(attrs) + Len(funcs)
            /\ out.rst[1].renderer = "directive"
            /\ out.rst[1].name = ".. js:module:: " \o out.module
            /\ \A i \in 1..Len(attrs) :
                  /\ out.rst[1 + i].renderer = "AutoAttributeRenderer"
                  /\ out.rst[1 + i].longname = attrs[i].longname
                  /\ out.rst[1 + i].name = attrs[i].name
            /\ \A i \in 1..Len(funcs) :
                  /\ out.rst[1 + Len(attrs) + i].renderer = "AutoFunctionRenderer"
                  /\ out.rst[1 + Len(attrs) + i].longname = funcs[i].longname
                  /\ out.rst[1 + Len(attrs) + i].name = funcs[i].name

\* C8 happens: the content of a bucket with an attribute and a function.
C8_Witness ==
    /\ out.directive = "content"
    /\ Len(js_docs[out.module]["attribute"]) = 1
    /\ Len(js_docs[out.module]["function"]) = 1
    /\ Len(out.rst) = 3

\* The sub-bucket names of the non-empty sub-buckets of a bucket, in order.
NonEmptyGroups(b) ==
    SelectSeq(GroupNames, LAMBDA k : Len(js_docs[b][k]) > 0)

\* C9: the summary row of a doclet of bucket B is (display name, signature,
\* summary, link target): the display name is the normalized name, the link
\* target is B, a full stop and the display name, and the signature is empty
\* when the doclet is not a function.
C9_SummaryRow ==
    out.directive = "summary" =>
        /\ Len(out.items) = Len(NonEmptyGroups(out.module))
        /\ \A t \in 1..Len(out.items) :
             LET objs == js_docs[out.module][NonEmptyGroups(out.module)[t]]
             IN  /\ Len(out.items[t]) = Len(objs)
                 /\ \A i \in 1..Len(objs) :
                      LET row == out.items[t][i]
                          d == DocletOf(objs[i])
                      IN  /\ row.name = objs[i].name
                          /\ row.real_name = out.module \o "." \o objs[i].name
                          /\ d.kind # "function" => row.sig = ""
                          /\ d.kind = "function" => row.sig # ""

\* C9 happens: the summary of the pyodide bucket holding the attribute "b",
\* whose row is displayed as [b] and links to pyodide.[b].
C9_Witness ==
    /\ out.directive = "summary"
    /\ out.module = "pyodide"
    /\ \E t \in 1..Len(out.items) : \E i \in 1..Len(out.items[t]) :
         /\ out.items[t][i].name = "[b]"
         /\ out.items[t][i].real_name = "pyodide.[b]"
         /\ out.items[t][i].sig = ""

\* C10: the globals bucket and the pyodide bucket hold the doclets of the last
\* group that selects them, earlier selecting groups being discarded; the
\* PyProxy bucket holds the doclets of every group that selects it.
C10_LastWinsOrMerged ==
    Built => \A b \in Modules :
                LongnamesOf(b) = { d.longname : d \in SourceOf(b) }

\* C10 happens: two groups select globals, each with a public doclet, and the
\* bucket holds only the second group's.
C10_Witness ==
    /\ Built
    /\ Cardinality(GlobalsGroups) = 2
    /\ \A i \in GlobalsGroups : PublicOf(i) # {}
    /\ Cardinality(LongnamesOf("globals")) = 1

====
